---- MODULE Spec2Model ----
(***************************************************************************)
(* Model of SocketService (the socket.io client facade of the board        *)
(* application): connection lifecycle, reconnection with exponential       *)
(* backoff, and the listener registry.                                     *)
(*                                                                         *)
(* Every transport opened by io(...) is kept in `transports`, also after   *)
(* the service has dropped its reference to it, because the handlers that  *)
(* setupEventHandlers attaches close over the service, not the transport.  *)
(***************************************************************************)
EXTENDS Integers, Sequences, FiniteSets, TLC

\* ---------------------------------------------------------------- bounds
MaxSockets == 3        \* transports opened by io(...) in one behaviour
MaxTimers == 2         \* setTimeout callbacks pending at once
MaxListeners == 2      \* callbacks held in one registry or on one transport
MaxRegSockets == 2     \* transports opened in a behaviour that uses the registry
MaxRegTimers == 1      \* timers pending at once in such a behaviour
MaxBuffered == 1       \* packets waiting in one transport's send buffer

\* ------------------------------------------------------- program constants
maxReconnectAttempts == 5
reconnectDelay == 1000

Null == 0
NoToken == "null"
Tokens == {"T1", "T2"}
Events == {"task:created", "chat:message"}
Callbacks == {"cb1", "cb2"}
IdCommands == {"task:update", "task:move"}
Commands == IdCommands \cup {"chat:typing"}
Ids == {"", "t1"}

ServerDisconnect == "io server disconnect"
ClientDisconnect == "io client disconnect"
TransientReasons == {"transport close", "ping timeout"}
Reasons == TransientReasons \cup {ServerDisconnect}

\* transport states: connecting (opened, handshake pending), connected,
\* dropped (lost, the manager still retries), ended (closed by the server),
\* closed (closed by socket.disconnect()).
Live == {"connecting", "connected", "dropped"}

VARIABLES
  socket,             \* this.socket: index into transports, or Null
  token,              \* this.token
  reconnectAttempts,  \* this.reconnectAttempts
  eventListeners,     \* this.eventListeners: event -> sequence of callbacks
  transports,         \* state of every transport opened so far
  attached,           \* per transport: event -> callbacks attached with on()
  sendBuffer,         \* per transport: packets emitted while not connected
  timers,             \* pending setTimeout callbacks, in scheduling order
  binder,             \* useSocket: which of its two effects have run
  last,               \* what the last operation did (observation)
  streak,             \* delays scheduled since the counter was last reset
  tornDown,           \* disconnect()/cleanup() returned, no connect() since
  limits              \* what a behaviour may use: transports, timers, tokens

vars == <<socket, token, reconnectAttempts, eventListeners, transports,
          attached, sendBuffer, timers, binder, last, streak, tornDown,
          limits>>

RECURSIVE Pow2(_)
Pow2(n) == IF n <= 0 THEN 1 ELSE 2 * Pow2(n - 1)

NoListeners == [e \in Events |-> <<>>]

\* The service (and the hook that drives it) as one value, so that the
\* methods compose as in the source.
Cur(op, reason) ==
  [socket |-> socket, token |-> token, reconnectAttempts |-> reconnectAttempts,
   eventListeners |-> eventListeners, transports |-> transports,
   attached |-> attached, sendBuffer |-> sendBuffer, timers |-> timers,
   streak |-> streak, binder |-> binder,
   last |-> [op |-> op, reason |-> reason, sched |-> 0, exhausted |-> FALSE,
             opened |-> 0, stale |-> FALSE, at |-> 0, event |-> "",
             cb |-> "", invoked |-> <<>>, id |-> "", handed |-> "none"]]

isConnected(st) ==
  IF st.socket = Null THEN FALSE ELSE st.transports[st.socket] = "connected"

Exhausted_Strict(n) == n > maxReconnectAttempts
Exhausted(n) == n >= maxReconnectAttempts

Delay_FromZero(n) == reconnectDelay * Pow2(n)
Delay(n) == reconnectDelay * Pow2(n - 1)

attemptReconnect(st) ==
  IF Exhausted(st.reconnectAttempts)
  THEN [st EXCEPT !.last.exhausted = TRUE]
  ELSE LET n == st.reconnectAttempts + 1
           d == Delay(n)
       IN [st EXCEPT !.reconnectAttempts = n,
                     !.timers = Append(@, [delay |-> d, stale |-> FALSE]),
                     !.streak = Append(@, d),
                     !.last.sched = d]

AttemptsOnConnect_Kept(n) == n
AttemptsOnConnect(n) == 0

onConnect(st) ==
  [st EXCEPT !.reconnectAttempts = AttemptsOnConnect(@),
             !.streak = <<>>]

ShouldReconnect_Always(reason) == TRUE
ShouldReconnect(reason) == reason # ServerDisconnect

onDisconnect(st, reason) ==
  IF ShouldReconnect(reason) THEN attemptReconnect(st) ELSE st

onConnectError(st) == attemptReconnect(st)

TokenOnDisconnect_Kept(t) == t
TokenOnDisconnect(t) == NoToken

disconnect(st) ==
  IF st.socket # Null
  THEN LET s == st.socket
           closed == [st EXCEPT !.transports[s] = "closed"]
           \* socket.disconnect() on a connected transport emits
           \* "disconnect" synchronously, before the fields are reset
           after == IF st.transports[s] = "connected"
                    THEN onDisconnect(closed, ClientDisconnect)
                    ELSE closed
       IN [after EXCEPT !.socket = Null,
                        !.token = TokenOnDisconnect(@),
                        !.reconnectAttempts = 0,
                        !.streak = <<>>]
  ELSE st

connect(st, tok) ==
  LET a == IF isConnected(st) THEN disconnect(st) ELSE st
      n == Len(a.transports) + 1
  IN [a EXCEPT !.token = tok,
               !.socket = n,
               !.transports = Append(@, "connecting"),
               !.attached = Append(@, NoListeners),
               !.sendBuffer = Append(@, 0),
               !.last.opened = n]

\* --------------------------------------------------------- listener lists
\* Emitter.off(event, fn), and indexOf + splice(index, 1) on the stored
\* callbacks: the first occurrence of cb goes, later ones stay.
RECURSIVE RemoveFirst(_, _)
RemoveFirst(seq, cb) ==
  IF seq = <<>> THEN <<>>
  ELSE IF Head(seq) = cb THEN Tail(seq)
  ELSE <<Head(seq)>> \o RemoveFirst(Tail(seq), cb)

RECURSIVE RemoveEach(_, _)
RemoveEach(entries, cbs) ==
  IF cbs = <<>> THEN entries
  ELSE RemoveEach(RemoveFirst(entries, Head(cbs)), Tail(cbs))


on(st, e, cb) ==
  IF st.socket = Null THEN st
  ELSE [st EXCEPT !.attached[st.socket][e] = Append(@, cb),
                  !.eventListeners[e] = Append(@, cb)]

off(st, e, cb) ==
  IF st.socket = Null THEN st
  ELSE [st EXCEPT !.attached[st.socket][e] = RemoveFirst(@, cb),
                  !.eventListeners[e] = RemoveFirst(@, cb)]

offAll(st, e) ==
  IF st.socket = Null THEN st
  ELSE [st EXCEPT !.attached[st.socket][e] = <<>>,
                  !.eventListeners[e] = <<>>]

cleanup(st) ==
  LET detached ==
        IF st.socket = Null THEN st
        ELSE [st EXCEPT !.attached[st.socket] =
                [e \in Events |-> RemoveEach(@[e], st.eventListeners[e])]]
  IN disconnect([detached EXCEPT !.eventListeners = NoListeners])

\* ------------------------------------------------------- the useSocket hook
\* socketService.on(name, (payload) => ...) for every event name.
RECURSIVE onEach(_, _, _)
onEach(st, es, cb) ==
  IF es = {} THEN st
  ELSE LET e == CHOOSE x \in es : TRUE
       IN onEach(on(st, e, cb), es \ {e}, cb)

\* socketService.off(name) for every event name.
RECURSIVE offEach(_, _)
offEach(st, es) ==
  IF es = {} THEN st
  ELSE LET e == CHOOSE x \in es : TRUE
       IN offEach(offAll(st, e), es \ {e})

\* The connection effect: the cleanup of its previous run, then connect or
\* disconnect as the authentication state says.
sessionEffect(st, tok) ==
  LET prev == IF st.binder.mounted THEN cleanup(st) ELSE st
      run == IF tok # NoToken THEN connect(prev, tok) ELSE disconnect(prev)
  IN [run EXCEPT !.binder.mounted = TRUE]

\* The listener effect: the cleanup of its previous run (if that registered),
\* then the registrations, but only when the service is connected right now.
listenerEffect(st, cb) ==
  LET prev == IF st.binder.bound THEN offEach(st, Events) ELSE st
  IN IF isConnected(prev)
     THEN [onEach(prev, Events, cb) EXCEPT !.binder.bound = TRUE]
     ELSE [prev EXCEPT !.binder.bound = FALSE]

\* ------------------------------------------------------- command methods
\* this.socket?.emit(name, ...args): nothing without a handle; a connected
\* transport sends the packet, any other keeps it in its send buffer.
emit(st, cmd, id) ==
  IF st.socket = Null THEN st
  ELSE IF st.transports[st.socket] = "connected"
  THEN [st EXCEPT !.last.handed = "sent"]
  ELSE [st EXCEPT !.sendBuffer[st.socket] = @ + 1,
                  !.last.handed = "buffered"]

\* Bounds on what an operation may leave behind.
RECURSIVE Held(_, _)
Held(lists, es) ==
  IF es = {} THEN 0
  ELSE LET e == CHOOSE x \in es : TRUE
       IN Len(lists[e]) + Held(lists, es \ {e})

Within(st) ==
  /\ Len(st.transports) <= limits.sockets
  /\ Len(st.timers) <= limits.timers
  /\ Held(st.eventListeners, Events) <= MaxListeners
  /\ \A s \in 1..Len(st.attached) : Held(st.attached[s], Events) <= MaxListeners
  /\ \A s \in 1..Len(st.sendBuffer) : st.sendBuffer[s] <= MaxBuffered

Commit(st) ==
  /\ Within(st)
  /\ socket' = st.socket
  /\ token' = st.token
  /\ reconnectAttempts' = st.reconnectAttempts
  /\ eventListeners' = st.eventListeners
  /\ transports' = st.transports
  /\ attached' = st.attached
  /\ sendBuffer' = st.sendBuffer
  /\ timers' = st.timers
  /\ binder' = st.binder
  /\ streak' = st.streak
  /\ last' = st.last
  /\ limits' = limits

MarkStale(st) ==
  [st EXCEPT !.timers = [i \in 1..Len(st.timers) |-> [st.timers[i] EXCEPT !.stale = TRUE]]]

Fresh ==
  /\ socket = Null
  /\ token = NoToken
  /\ reconnectAttempts = 0
  /\ eventListeners = NoListeners
  /\ transports = <<>>
  /\ attached = <<>>
  /\ sendBuffer = <<>>
  /\ timers = <<>>
  /\ binder = [mounted |-> FALSE, bound |-> FALSE]
  /\ streak = <<>>
  /\ tornDown = FALSE
  /\ last = [op |-> "init", reason |-> "", sched |-> 0, exhausted |-> FALSE,
             opened |-> 0, stale |-> FALSE, at |-> 0, event |-> "",
             cb |-> "", invoked |-> <<>>, id |-> "", handed |-> "none"]

Init == Fresh /\ limits = [sockets |-> MaxSockets, timers |-> MaxTimers,
                          tokens |-> Tokens]

InitReg == Fresh /\ limits = [sockets |-> MaxRegSockets, timers |-> MaxRegTimers,
                             tokens |-> {"T1"}]

\* ------------------------------------------------------ consumer operations
Connect ==
  \E tok \in limits.tokens :
    /\ Commit(connect(Cur("connect", ""), tok))
    /\ tornDown' = FALSE

Disconnect ==
  /\ Commit(disconnect(MarkStale(Cur("disconnect", ""))))
  /\ tornDown' = TRUE

Cleanup ==
  /\ Commit(cleanup(MarkStale(Cur("cleanup", ""))))
  /\ tornDown' = TRUE

\* ------------------------------------------------------------ the registry
On ==
  \E e \in Events, cb \in Callbacks :
    /\ Commit(on(Cur("on", ""), e, cb))
    /\ UNCHANGED tornDown

Off ==
  \E e \in Events, cb \in Callbacks :
    /\ Commit(off([Cur("off", "") EXCEPT !.last.event = e, !.last.cb = cb], e, cb))
    /\ UNCHANGED tornDown

OffAll ==
  \E e \in Events :
    /\ Commit(offAll([Cur("offAll", "") EXCEPT !.last.event = e], e))
    /\ UNCHANGED tornDown

\* An inbound message on a connected transport: Emitter.emit runs every
\* callback attached for the event, in order.
Dispatch ==
  \E s \in 1..Len(transports), e \in Events :
    /\ transports[s] = "connected"
    /\ Commit([Cur("dispatch", "") EXCEPT
                 !.last.at = s, !.last.event = e,
                 !.last.invoked = attached[s][e]])
    /\ UNCHANGED tornDown

\* ------------------------------------------------------------- the binder
\* isAuthenticated or token changed (or the component mounted).
BinderSession ==
  \E tok \in limits.tokens \cup {NoToken} :
    /\ Commit(sessionEffect(MarkStale(Cur("session", "")), tok))
    /\ tornDown' = (tok = NoToken)

\* One of the store functions the listener effect depends on changed (or
\* the component mounted); the callbacks are new functions on every run.
BinderListeners ==
  \E cb \in Callbacks :
    /\ Commit(listenerEffect(Cur("listeners", ""), cb))
    /\ UNCHANGED tornDown

\* A command method (joinBoard, updateTask, moveTask, startTyping, ...): all
\* have the same body; those of IdCommands take an identifier first.
Command ==
  \E cmd \in Commands, id \in Ids :
    /\ cmd \notin IdCommands => id = ""
    /\ Commit(emit([Cur("command", "") EXCEPT !.last.event = cmd, !.last.id = id],
                   cmd, id))
    /\ UNCHANGED tornDown

\* ------------------------------------------------------- transport signals
TransportConnected ==
  \E s \in 1..Len(transports) :
    /\ transports[s] \in {"connecting", "dropped"}
    /\ Commit(onConnect([Cur("sig_connect", "") EXCEPT
                           !.transports[s] = "connected",
                           !.sendBuffer[s] = 0]))
    /\ UNCHANGED tornDown

TransportDisconnected ==
  \E s \in 1..Len(transports), reason \in Reasons :
    /\ transports[s] = "connected"
    /\ Commit(onDisconnect(
         [Cur("sig_disconnect", reason) EXCEPT
            !.transports[s] = IF reason = ServerDisconnect THEN "ended" ELSE "dropped"],
         reason))
    /\ UNCHANGED tornDown

TransportConnectError ==
  \E s \in 1..Len(transports), refused \in BOOLEAN :
    /\ transports[s] \in {"connecting", "dropped"}
    /\ refused => transports[s] = "connecting"
    /\ Commit(onConnectError(
         [Cur("sig_error", "") EXCEPT
            !.transports[s] = IF refused THEN "ended" ELSE @]))
    /\ UNCHANGED tornDown

\* ------------------------------------------------------------ retry timers
RemoveAt(seq, i) == [j \in 1..(Len(seq) - 1) |-> IF j < i THEN seq[j] ELSE seq[j + 1]]

\* A timer set earlier with a delay no longer than this one's fires first.
Due(i) == \A j \in 1..(i - 1) : timers[j].delay > timers[i].delay

FireTimer ==
  \E i \in 1..Len(timers) :
    /\ Due(i)
    /\ LET st == [Cur("timer", "") EXCEPT !.timers = RemoveAt(@, i),
                                         !.last.stale = timers[i].stale]
       IN Commit(IF st.token # NoToken THEN connect(st, st.token) ELSE st)
    /\ UNCHANGED tornDown

Next ==
  \/ Connect
  \/ Disconnect
  \/ Cleanup
  \/ TransportConnected
  \/ TransportDisconnected
  \/ TransportConnectError
  \/ FireTimer

Spec == Init /\ [][Next]_vars

\* The registry on top of the lifecycle; handshakes do not fail here, a
\* reconnect follows a dropped connection.
NextReg ==
  \/ Connect
  \/ Disconnect
  \/ Cleanup
  \/ TransportConnected
  \/ TransportDisconnected
  \/ FireTimer
  \/ On
  \/ Off
  \/ OffAll
  \/ Dispatch

SpecReg == InitReg /\ [][NextReg]_vars

\* The command methods on top of the lifecycle.
NextCmd ==
  \/ Connect
  \/ Disconnect
  \/ TransportConnected
  \/ TransportDisconnected
  \/ TransportConnectError
  \/ FireTimer
  \/ Command

SpecCmd == InitReg /\ [][NextCmd]_vars

\* The service driven by the useSocket hook alone.
NextBind ==
  \/ BinderSession
  \/ BinderListeners
  \/ TransportConnected
  \/ TransportDisconnected
  \/ TransportConnectError
  \/ FireTimer
  \/ Dispatch

SpecBind == InitReg /\ [][NextBind]_vars

\* ------------------------------------------------------------ properties
Signals == {"sig_disconnect", "sig_error"}
Teardowns == {"disconnect", "cleanup"}
BackoffDelays == <<1000, 2000, 4000, 8000, 16000>>

RECURSIVE Count(_, _)
Count(seq, x) ==
  IF seq = <<>> THEN 0
  ELSE (IF Head(seq) = x THEN 1 ELSE 0) + Count(Tail(seq), x)

LiveTransports == {s \in 1..Len(transports) : transports[s] \in Live}

\* C1: a retry timer that was pending when disconnect() or cleanup() was
\* called never opens a transport once that teardown has returned, also
\* when connect(credential) has been called again in between.
C1_NoStaleRetry ==
  ~(last.op = "timer" /\ last.stale /\ last.opened # Null)

\* C2: from the return of disconnect() (or cleanup()) until the next
\* connect() by the consumer, the credential is absent and no operation
\* (timer firing or transport signal) opens a transport.
C2_NoRetryAfterDisconnect ==
  tornDown => (token = NoToken /\ last.opened = Null)

\* a timer that was pending at the teardown fires after it and opens nothing
C2_Witness ==
  tornDown /\ last.op = "timer" /\ last.stale /\ last.opened = Null

\* C3: right after disconnect() or cleanup() returns no scheduled reconnect
\* is pending.
C3_TeardownCancels ==
  last.op \in Teardowns => timers = <<>>

\* C4: the k-th retry scheduled since the counter was last reset (by a
\* successful connection or a teardown) has delay 1000 * 2^(k-1), there are
\* at most 5 of them, and every pending timer has one of the five delays.
C4_BackoffSchedule ==
  /\ Len(streak) <= 5
  /\ \A k \in 1..Len(streak) : streak[k] = BackoffDelays[k]
  /\ \A i \in 1..Len(timers) :
       timers[i].delay \in {BackoffDelays[k] : k \in 1..5}
  /\ last.sched # 0 => last.sched \in {BackoffDelays[k] : k \in 1..5}

\* a third consecutive failure, a transient disconnect, scheduled 4000 ms
C4_Witness ==
  /\ last.op = "sig_disconnect"
  /\ streak = <<1000, 2000, 4000>>
  /\ last.sched = 4000

\* C5: a "disconnect" signal with reason "io server disconnect" leaves the
\* pending timers as they were; with any other reason, and the counter below
\* the maximum, it adds one timer.
C5_ServerDisconnectNoRetry ==
  [][last'.op = "sig_disconnect" =>
       IF last'.reason = ServerDisconnect
       THEN timers' = timers /\ reconnectAttempts' = reconnectAttempts
       ELSE reconnectAttempts < 5 =>
              /\ Len(timers') = Len(timers) + 1
              /\ reconnectAttempts' = reconnectAttempts + 1]_vars

\* the server ended a session while an earlier retry was still pending
C5_Witness ==
  /\ last.op = "sig_disconnect"
  /\ last.reason = ServerDisconnect
  /\ last.sched = 0
  /\ timers # <<>>

\* C6: at most one opened transport is un-closed at any time.
C6_OneLiveTransport ==
  Cardinality(LiveTransports) <= 1

\* C7: with the counter at 5, a disconnect or connection-error signal
\* schedules nothing and leaves the counter at 5.
C7_NoRetryPastMax ==
  [][(reconnectAttempts >= 5 /\ last'.op \in Signals) =>
       (timers' = timers /\ reconnectAttempts' = reconnectAttempts)]_vars

\* a connection error arrived with the counter at the maximum
C7_Witness ==
  last.op = "sig_error" /\ last.exhausted /\ reconnectAttempts = 5

\* C8: a failure signal that finds the counter at the maximum leaves the
\* client Idle: no transport handle and no credential.
C8_ExhaustedGoesIdle ==
  (last.op \in Signals /\ last.exhausted) => (socket = Null /\ token = NoToken)

C10_IdempotentOn ==
  last.op = "dispatch" => \A cb \in Callbacks : Count(last.invoked, cb) <= 1

Occurs(seq, x) == \E i \in 1..Len(seq) : seq[i] = x

\* C11: after off(eventName, cb) has returned, cb is neither stored in the
\* registry for eventName nor attached for eventName to a transport that can
\* still deliver events.
C11_OffRemoves ==
  last.op = "off" =>
    /\ ~Occurs(eventListeners[last.event], last.cb)
    /\ \A s \in LiveTransports : ~Occurs(attached[s][last.event], last.cb)

\* C12: after every cleanup(), a first one or a repeated one, the registry
\* is empty and the connection is Idle: no transport handle, no credential,
\* retry counter 0.
C12_CleanupIdle ==
  last.op = "cleanup" =>
    /\ eventListeners = NoListeners
    /\ socket = Null
    /\ token = NoToken
    /\ reconnectAttempts = 0

\* C14: when cleanup() returns, no transport that can still deliver events
\* has a callback attached.
C14_CleanupDetachesAll ==
  last.op = "cleanup" =>
    \A s \in LiveTransports : attached[s] = NoListeners

\* C16: off(eventName) without a callback empties the registry entry of
\* eventName, with or without a transport handle, and leaves the entries of
\* the other event names as they were.
C16_OffAllRemoves ==
  [][last'.op = "offAll" =>
       /\ eventListeners'[last'.event] = <<>>
       /\ \A e \in Events \ {last'.event} :
            eventListeners'[e] = eventListeners[e]]_vars

\* C18: the retry counter stays within 0..5.
C18_CounterRange ==
  reconnectAttempts \in 0..5

\* the counter at its maximum with the fifth retry still pending
C18_Witness ==
  reconnectAttempts = 5 /\ streak # <<>> /\ timers # <<>>

\* C19: at most one retry timer is pending.
C19_OnePendingTimer ==
  Len(timers) <= 1

\* C20: the transport handle and the credential are present or absent
\* together.
C20_HandleIffToken ==
  (socket = Null) <=> (token = NoToken)

\* a retry timer found a credential and replaced the handle it also found
C20_Witness ==
  last.op = "timer" /\ last.opened # Null /\ token # NoToken

Connected == socket # Null /\ transports[socket] = "connected"

\* C15: a command method called while isConnected() is false hands nothing
\* to the transport and queues nothing.
C15_NoOpWhenNotConnected ==
  (last.op = "command" /\ ~Connected) => last.handed = "none"

\* C17: a task, column or board command called with an empty identifier
\* sends nothing to the transport.
C17_EmptyIdRejected ==
  (last.op = "command" /\ last.event \in IdCommands /\ last.id = "") =>
    last.handed # "sent"

\* C13: once the current transport has connected, every event name has a
\* listener attached to it, at the connection and at every inbound event.
C13_ListenersAfterConnect ==
  (last.op \in {"sig_connect", "dispatch"} /\ Connected) =>
    \A e \in Events : attached[socket][e] # <<>>
====
